---- MODULE Spec2Model ----
(***************************************************************************)
(* The nox sessions of noxfile.py and the helper that patches the git      *)
(* hooks installed by pre-commit.                                          *)
(*                                                                         *)
(* Text is modelled as a sequence of one-character strings, so that        *)
(* splitlines, lower, repr, the universal-newline translation of           *)
(* read_text and the join of write_text are computed as Python computes    *)
(* them.  Command lines are sequences of words.                            *)
(***************************************************************************)
EXTENDS Naturals, Sequences, FiniteSets

VARIABLES
    platform,       \* "posix" or "nt": decides Path("A") == Path("a") and os.linesep
    interactive,    \* session.interactive
    bin,            \* session.bin: a path, or None
    virtualenv,     \* session.env.get("VIRTUAL_ENV"): a path, or None
    posargs,        \* session.posargs
    manifestLen,    \* len(session._runner.manifest)
    task,           \* the session function being run, "idle" between sessions
    pc,             \* the statement of the session function that runs next
    status,         \* "running", "ok" or "failed" (an exception left the function)
    trace,          \* what the session function has done so far, in order
    hookdirExists,  \* Path(".git") / "hooks" is a directory
    hooks,          \* the entries of the hooks directory: name -> [kind, content]
    hooksBefore,    \* the entries as they were when the helper was last entered
    calls,          \* how often the helper has been called
    buildDir,       \* what is at docs/_build: "absent", "dir" or "file"
    covData,        \* any(Path().glob(".coverage.*"))
    runs            \* how many sessions have been started

vars == <<platform, interactive, bin, virtualenv, posargs, manifestLen, task, pc,
          status, trace, hookdirExists, hooks, hooksBefore, calls, buildDir,
          covData, runs>>

sessionVars == <<platform, interactive, bin, virtualenv, posargs, manifestLen>>

\* How often the helper is applied to one hooks directory.
MaxCalls == 2

\* How many sessions are started on one filesystem.
MaxRuns == 2

(***************************************************************************)
(* Text                                                                    *)
(***************************************************************************)

\* Python's None, kept a sequence so that it compares with a path.
None == <<"<None>">>

Range(s) == {s[i] : i \in 1..Len(s)}

Upper == <<"A","B","C","D","E","F","G","H","I","J","K","L","M","N","O","P","Q","R","S","T","U","V","W","X","Y","Z">>

Lower == <<"a","b","c","d","e","f","g","h","i","j","k","l","m","n","o","p","q","r","s","t","u","v","w","x","y","z">>

LowerChar(c) ==
    IF \E i \in 1..Len(Upper) : Upper[i] = c
    THEN Lower[CHOOSE i \in 1..Len(Upper) : Upper[i] = c]
    ELSE c

\* str.lower()
ToLower(s) == [i \in 1..Len(s) |-> LowerChar(s[i])]

\* str.startswith(p)
StartsWith(s, p) == Len(s) >= Len(p) /\ SubSeq(s, 1, Len(p)) = p

\* str.endswith(p)
EndsWith(s, p) == Len(s) >= Len(p) /\ SubSeq(s, Len(s) - Len(p) + 1, Len(s)) = p

\* sub in s
Contains(sub, s) ==
    \E i \in 0..Len(s) : i + Len(sub) <= Len(s) /\ SubSeq(s, i + 1, i + Len(sub)) = sub

\* The quote repr() puts around a string: double quotes when the string holds a
\* single quote and no double quote.
ReprQuote(s) == IF "'" \in Range(s) /\ ~("\"" \in Range(s)) THEN "\"" ELSE "'"

ReprChar(c, q) ==
    IF c = "\\" THEN <<"\\", "\\">>
    ELSE IF c = q THEN <<"\\", c>>
    ELSE IF c = "\n" THEN <<"\\", "n">>
    ELSE IF c = "\r" THEN <<"\\", "r">>
    ELSE IF c = "\t" THEN <<"\\", "t">>
    ELSE <<c>>

RECURSIVE ReprBody(_, _)
ReprBody(s, q) ==
    IF s = <<>> THEN <<>> ELSE ReprChar(Head(s), q) \o ReprBody(Tail(s), q)

\* repr(s) of a str
Repr(s) == <<ReprQuote(s)>> \o ReprBody(s, ReprQuote(s)) \o <<ReprQuote(s)>>

\* repr(s)[1:-1]
StripQuotes(r) == SubSeq(r, 2, Len(r) - 1)

LineBreaks == {"\n", "\r", "\f"}

\* The index of the first element of s that is in chars, 0 when there is none.
FirstOf(s, chars) ==
    LET at == {i \in 1..Len(s) : s[i] \in chars}
    IN  IF at = {} THEN 0 ELSE CHOOSE i \in at : \A j \in at : i <= j

\* The universal-newline translation of a text-mode read: "\r\n" and "\r"
\* become "\n".
RECURSIVE ReadText(_)
ReadText(content) ==
    LET i == FirstOf(content, {"\r"})
        n == IF i < Len(content) /\ content[i + 1] = "\n" THEN i + 1 ELSE i
    IN  IF i = 0 THEN content
        ELSE SubSeq(content, 1, i - 1) \o <<"\n">>
                \o ReadText(SubSeq(content, n + 1, Len(content)))

\* The translation of a text-mode write: "\n" becomes os.linesep.
RECURSIVE WriteText(_, _)
WriteText(text, os) ==
    LET i == FirstOf(text, {"\n"})
    IN  IF os # "nt" \/ i = 0 THEN text
        ELSE SubSeq(text, 1, i - 1) \o <<"\r", "\n">>
                \o WriteText(SubSeq(text, i + 1, Len(text)), os)

\* The index of the first line break of s, 0 when it has none.
FirstBreak(s) == FirstOf(s, LineBreaks)

\* str.splitlines(): the line breaks are dropped, "\r\n" is one break, and a
\* break at the very end opens no further line.
RECURSIVE SplitLines(_)
SplitLines(s) ==
    IF s = <<>> THEN <<>>
    ELSE IF FirstBreak(s) = 0 THEN <<s>>
    ELSE LET i == FirstBreak(s)
             n == IF s[i] = "\r" /\ i < Len(s) /\ s[i + 1] = "\n" THEN i + 1 ELSE i
         IN  <<SubSeq(s, 1, i - 1)>> \o SplitLines(SubSeq(s, n + 1, Len(s)))

\* sep.join(lines)
RECURSIVE Join(_, _)
Join(lines, sep) ==
    IF lines = <<>> THEN <<>>
    ELSE IF Len(lines) = 1 THEN lines[1]
    ELSE lines[1] \o sep \o Join(Tail(lines), sep)

\* list.insert(0, x): the block put before the first line.
Insert0(lines, x) == <<x>> \o lines

\* list.insert(1, x)
Insert1(lines, x) ==
    IF lines = <<>> THEN <<x>> ELSE <<Head(lines), x>> \o Tail(lines)

(***************************************************************************)
(* The hooks directory and the session state the helper reads              *)
(***************************************************************************)

Bins == {<<"/","v">>, <<"C","\\","V">>}

Virtualenvs == {<<"/","e">>, <<"e","'">>}

PreCommitHook == <<"p","r","e","-","c","o","m","m","i","t">>

PrePushSample == <<"p","r","e","-","p","u","s","h",".","s","a","m","p","l","e">>

HookNames == {PreCommitHook, PrePushSample}

File(content) == [kind |-> "file", content |-> content]

Directory == [kind |-> "dir", content |-> <<>>]

FirstLines ==
    { <<"#","!","p","y","t","h","o","n">>,
      <<"#","!","P","y","t","h","o","n">>,
      <<"#","!","s","h">>,
      <<"p","y","t","h","o","n">>,
      <<>> }

\* What the rest of a hook may mention: the bin directory of either session as
\* repr writes it, one of them in another case, or neither.
Bodies ==
    { <<"/","v">>,
      <<"C","\\","\\","V">>,
      <<"c","\\","\\","v">>,
      <<"x">> }

Separators == { <<"\n">>, <<"\r","\n">>, <<"\f">> }

Endings == { <<>>, <<"\n">> }

HookContents ==
    { f \o s \o b \o e : f \in FirstLines, s \in Separators, b \in Bodies, e \in Endings }
    \cup { <<>>,
           <<"#","!","/","v","/","p","y","t","h","o","n">>,
           <<"#","!","/","v","/","s","h">> }

HookEntries == {Directory} \cup {File(c) : c \in HookContents}

\* A hook that pre-commit installed with one of the sessions' interpreters.
InstalledSample == File(<<"#","!","p","y","t","h","o","n","\n","/","v","\n">>)

\* The hooks directories the helper is tried on: any entry under the name
\* pre-commit, beside a sample that is a directory or would be patched.
HookDirectories ==
    { [name \in HookNames |-> IF name = PreCommitHook THEN e ELSE s] :
        e \in HookEntries, s \in {Directory, InstalledSample} }

(***************************************************************************)
(* activate_virtualenv_in_precommit_hooks                                  *)
(***************************************************************************)

Shebang == <<"#","!">>

Python == <<"p","y","t","h","o","n">>

SampleSuffix == <<".","s","a","m","p","l","e">>

HeaderImport == <<"i","m","p","o","r","t"," ","o","s","\n","o","s",".","e","n","v","i","r","o","n","[","\"","V","I","R","T","U","A","L","_","E","N","V","\"","]"," ","="," ">>

HeaderPath == <<"\n","o","s",".","e","n","v","i","r","o","n","[","\"","P","A","T","H","\"","]"," ","="," ","o","s",".","p","a","t","h","s","e","p",".","j","o","i","n","(","(","\n"," "," "," "," ">>

HeaderEnd == <<",","\n"," "," "," "," ","o","s",".","e","n","v","i","r","o","n",".","g","e","t","(","\"","P","A","T","H","\"",","," ","\"","\"",")",",","\n",")",")","\n">>

\* The dedented header block, with repr of the two paths in it.
Header == HeaderImport \o Repr(virtualenv) \o HeaderPath \o Repr(bin) \o HeaderEnd

\* repr(session.bin)[1:-1]
Bindir == StripQuotes(Repr(bin))

\* Path("A") == Path("a"): true of Windows paths only.
CaseInsensitivePaths == platform = "nt"

\* The test of lines 65-67 on the text of a hook.
MentionsBindir(text) ==
    \/ CaseInsensitivePaths /\ Contains(ToLower(Bindir), ToLower(text))
    \/ Contains(Bindir, text)

\* The test of line 71 without its second conjunct: any shebang passes.
IsAnyShebang(line) == StartsWith(line, Shebang)

\* The test of line 71 on the first line of a hook.
IsPythonShebang(line) ==
    StartsWith(line, Shebang) /\ Contains(Python, ToLower(line))

\* The test of line 60.
SkipsEntry(name, entry) == EndsWith(name, SampleSuffix) \/ entry.kind # "file"

\* Whether the loop body reaches write_text for this entry.  A text that
\* mentions the (non-empty) bin directory has a first line.
Patches(name, entry) ==
    /\ ~SkipsEntry(name, entry)
    /\ MentionsBindir(ReadText(entry.content))
    /\ SplitLines(ReadText(entry.content)) # <<>>
    /\ IsPythonShebang(SplitLines(ReadText(entry.content))[1])

\* Lines 70, 85 and 86: the text as write_text leaves it.
PatchedContent(content) ==
    WriteText(Join(Insert1(SplitLines(ReadText(content)), Header), <<"\n">>), platform)

\* The early returns without the one of lines 52-53.
HelperReturnsEarlyIgnoringEnv == bin = None \/ ~hookdirExists

\* The three early returns of lines 48-57.
HelperReturnsEarly == bin = None \/ virtualenv = None \/ ~hookdirExists

\* The hooks directory as the helper leaves it.
ActivateVirtualenvInPrecommitHooks ==
    IF HelperReturnsEarly THEN hooks
    ELSE [name \in DOMAIN hooks |->
            IF Patches(name, hooks[name])
            THEN File(PatchedContent(hooks[name].content))
            ELSE hooks[name]]

\* The hooks the helper writes.
Written == {name \in DOMAIN hooks : hooks[name] # ActivateVirtualenvInPrecommitHooks[name]}

(***************************************************************************)
(* The helper on its own: any session state, any hooks directory           *)
(***************************************************************************)

HelperInit ==
    /\ platform \in {"posix", "nt"}
    /\ interactive \in BOOLEAN
    /\ bin \in Bins \cup {None}
    /\ virtualenv \in Virtualenvs \cup {None}
    /\ posargs = <<"install">>
    /\ manifestLen = 1
    /\ task = "idle"
    /\ pc = "none"
    /\ status = "ok"
    /\ trace = <<>>
    /\ hookdirExists \in BOOLEAN
    /\ hooks \in IF hookdirExists THEN HookDirectories ELSE {<<>>}
    /\ hooksBefore = hooks
    /\ calls = 0
    /\ buildDir = "absent"
    /\ covData = FALSE
    /\ runs = 0

CallHelper ==
    /\ calls < MaxCalls
    /\ hooksBefore' = hooks
    /\ hooks' = ActivateVirtualenvInPrecommitHooks
    /\ calls' = calls + 1
    /\ UNCHANGED <<sessionVars, task, pc, status, trace, hookdirExists, buildDir,
                   covData, runs>>

HelperNext == CallHelper

SpecHelper == HelperInit /\ [][HelperNext]_vars

(***************************************************************************)
(* The sessions                                                            *)
(***************************************************************************)

TaskNames ==
    {"pre-commit", "safety", "mypy", "tests", "coverage", "typeguard", "xdoctest",
     "docs-build", "docs"}

\* The trailing arguments a caller may give.
PosargsChoices == { <<>>, <<"install">>, <<"-q", "install">> }

\* pytest_deps
PytestDeps ==
    <<"pytest", "pygments", "aioresponses", "pytest-mock", "pytest-datadir",
      "pytest-asyncio">>

\* The session.install calls of each session function, in order.
Installs(t) ==
    CASE t = "pre-commit" ->
            << <<"black", "darglint", "flake8", "flake8-bandit", "flake8-bugbear",
                 "flake8-docstrings", "flake8-rst-docstrings", "pep8-naming",
                 "pre-commit", "pre-commit-hooks", "reorder-python-imports">> >>
      [] t = "safety"     -> << <<"safety">> >>
      [] t = "mypy"       -> << <<".">>, <<"mypy", "pytest", "pytest-mock">> >>
      [] t = "tests"      -> << <<".">>, <<"coverage[toml]">>, PytestDeps >>
      [] t = "coverage"   -> << <<"coverage[toml]">> >>
      [] t = "typeguard"  -> << <<".">>, <<"typeguard">>, PytestDeps >>
      [] t = "xdoctest"   -> << <<".">>, <<"xdoctest[colors]">> >>
      [] t = "docs-build" -> << <<".">>, <<"sphinx", "sphinx-rtd-theme">> >>
      [] t = "docs"       -> << <<".">>, <<"sphinx", "sphinx-autobuild", "sphinx-rtd-theme">> >>

InstallSteps == <<"install1", "install2", "install3">>

InstallIndex(p) == CHOOSE k \in 1..Len(InstallSteps) : InstallSteps[k] = p

\* The statement a session function starts with.
FirstStep(t) == IF t = "safety" THEN "export" ELSE "install1"

\* has_args without the test of the manifest.
CoverageHasArgsAnyManifest == posargs # <<>>

\* has_args of the coverage session (line 172).
CoverageHasArgs == posargs # <<>> /\ manifestLen = 1

\* The statement that follows the last session.install of a session function.
AfterInstalls(t) ==
    CASE t = "pre-commit" -> "pre-commit"
      [] t = "safety"     -> "safety"
      [] t = "mypy"       -> "mypy"
      [] t = "tests"      -> "coverage-run"
      [] t = "coverage"   -> IF ~CoverageHasArgs /\ covData THEN "combine" ELSE "report"
      [] t = "typeguard"  -> "pytest"
      [] t = "xdoctest"   -> "xdoctest"
      [] t = "docs-build" -> "clean"
      [] t = "docs"       -> "clean"

Entry(step, kind, cmd, ok) ==
    [step |-> step, kind |-> kind, cmd |-> cmd, ok |-> ok, written |-> {}]

\* A statement has run: the session function goes on to next when it succeeded
\* and is left by the exception when it failed.
Proceed(entry, next) ==
    /\ trace' = Append(trace, entry)
    /\ IF ~entry.ok THEN pc' = "done" /\ status' = "failed"
       ELSE IF next = "done" THEN pc' = "done" /\ status' = "ok"
       ELSE pc' = next /\ status' = status

Running(t, p) == status = "running" /\ task = t /\ pc = p

\* The runner enters a session function.
StartSession ==
    /\ task = "idle"
    /\ runs < MaxRuns
    /\ runs' = runs + 1
    /\ task' \in TaskNames
    /\ posargs' \in PosargsChoices
    /\ interactive' \in BOOLEAN
    /\ bin' \in {None, <<"/","v">>}
    /\ virtualenv' \in {None, <<"/","e">>}
    /\ manifestLen' \in {1, 2}
    /\ pc' = FirstStep(task')
    /\ status' = "running"
    /\ trace' = <<>>
    /\ UNCHANGED <<platform, hookdirExists, hooks, hooksBefore, calls, buildDir, covData>>

\* The session function has returned or raised and the runner drops the session.
EndSession ==
    /\ task # "idle"
    /\ status # "running"
    /\ task' = "idle"
    /\ trace' = <<>>
    /\ interactive' = FALSE
    /\ bin' = None
    /\ virtualenv' = None
    /\ posargs' = <<>>
    /\ manifestLen' = 1
    /\ UNCHANGED <<platform, pc, status, hookdirExists, hooks, hooksBefore, calls,
                   buildDir, covData, runs>>

\* session.install(...)
SessionInstall ==
    /\ status = "running"
    /\ pc \in Range(InstallSteps)
    /\ \E ok \in BOOLEAN :
        LET k == InstallIndex(pc)
        IN  Proceed(Entry(pc, "install", Installs(task)[k], ok),
                    IF k < Len(Installs(task)) THEN InstallSteps[k + 1]
                    ELSE AfterInstalls(task))
    /\ UNCHANGED <<sessionVars, task, hookdirExists, hooks, hooksBefore, calls,
                   buildDir, covData, runs>>

(************************** pre-commit *************************************)

PreCommitDefault == <<"run", "--all-files", "--show-diff-on-failure">>

PreCommitArgs == IF posargs # <<>> THEN posargs ELSE PreCommitDefault

\* The hook "pre-commit install" writes: a Python script that names the
\* interpreter of the session's bin directory.
InstalledHook == File(<<"#","!","p","y","t","h","o","n","\n">> \o Bindir \o <<"\n">>)

\* What the pre-commit command may do to the hooks directory.
PreCommitEffects(ok) ==
    IF ok /\ PreCommitArgs[1] = "install" /\ hookdirExists /\ bin # None
    THEN {hooks, [hooks EXCEPT ![PreCommitHook] = InstalledHook]}
    ELSE {hooks}

\* Line 111 without its test: the helper is called after every pre-commit run.
PreCommitActivatesAlways == TRUE

\* Whether line 111 calls the helper.
PreCommitActivates == PreCommitArgs # <<>> /\ PreCommitArgs[1] = "install"

PreCommitRun ==
    /\ Running("pre-commit", "pre-commit")
    /\ \E ok \in BOOLEAN :
        /\ Proceed(Entry("pre-commit", "run", <<"pre-commit">> \o PreCommitArgs, ok),
                   IF PreCommitActivates THEN "activate" ELSE "done")
        /\ hooks' \in PreCommitEffects(ok)
    /\ UNCHANGED <<sessionVars, task, hookdirExists, hooksBefore, calls, buildDir,
                   covData, runs>>

PreCommitActivate ==
    /\ Running("pre-commit", "activate")
    /\ hooksBefore' = hooks
    /\ hooks' = ActivateVirtualenvInPrecommitHooks
    /\ calls' = calls + 1
    /\ trace' = Append(trace, [Entry("activate", "patch", <<>>, TRUE)
                                 EXCEPT !.written = Written])
    /\ pc' = "done"
    /\ status' = "ok"
    /\ UNCHANGED <<sessionVars, task, hookdirExists, buildDir, covData, runs>>

(**************************** safety ***************************************)

\* nox_poetry.export_requirements(session)
SafetyExport ==
    /\ Running("safety", "export")
    /\ \E ok \in BOOLEAN :
        Proceed(Entry("export", "export", <<"poetry", "export">>, ok), "install1")
    /\ UNCHANGED <<sessionVars, task, hookdirExists, hooks, hooksBefore, calls,
                   buildDir, covData, runs>>

SafetyCommand == <<"safety", "check", "--file=requirements.txt", "--bare">>

SafetyRun ==
    /\ Running("safety", "safety")
    /\ \E ok \in BOOLEAN : Proceed(Entry("safety", "run", SafetyCommand, ok), "done")
    /\ UNCHANGED <<sessionVars, task, hookdirExists, hooks, hooksBefore, calls,
                   buildDir, covData, runs>>

(***************************** mypy ****************************************)

MypyDefault == <<"--explicit-package-bases", "src/haapi/games", "tests", "docs/conf.py">>

MypyArgs == IF posargs # <<>> THEN posargs ELSE MypyDefault

\* The first mypy run with its exit code ignored.
MypyRunUnchecked ==
    /\ status = "running" /\ task = "mypy" /\ pc = "mypy"
    /\ \E ok \in BOOLEAN :
        /\ trace' = Append(trace, [step |-> "mypy", kind |-> "run", cmd |-> <<"mypy">> \o posargs,
                                   ok |-> ok, written |-> {}])
        /\ pc' = IF posargs = <<>> THEN "mypy-noxfile" ELSE "done"
        /\ status' = IF posargs = <<>> THEN "running" ELSE "ok"
    /\ UNCHANGED <<sessionVars, task, hookdirExists, hooks, hooksBefore, calls,
                   buildDir, covData, runs>>

MypyRun ==
    /\ Running("mypy", "mypy")
    /\ \E ok \in BOOLEAN :
        Proceed(Entry("mypy", "run", <<"mypy">> \o MypyArgs, ok),
                IF posargs = <<>> THEN "mypy-noxfile" ELSE "done")
    /\ UNCHANGED <<sessionVars, task, hookdirExists, hooks, hooksBefore, calls,
                   buildDir, covData, runs>>

MypyNoxfileRun ==
    /\ Running("mypy", "mypy-noxfile")
    /\ \E ok \in BOOLEAN :
        Proceed(Entry("mypy-noxfile", "run",
                      <<"mypy", "--python-executable=sys.executable", "noxfile.py">>, ok),
                "done")
    /\ UNCHANGED <<sessionVars, task, hookdirExists, hooks, hooksBefore, calls,
                   buildDir, covData, runs>>

(***************************** tests ***************************************)

\* The test command: it may leave a .coverage.* data file behind.
TestsRun ==
    /\ Running("tests", "coverage-run")
    /\ \E ok \in BOOLEAN :
        /\ trace' = Append(trace,
                Entry("coverage-run", "run",
                      <<"coverage", "run", "--parallel", "-m", "pytest">> \o posargs, ok))
        /\ covData' \in {covData, TRUE}
    /\ pc' = "finally"
    /\ UNCHANGED <<sessionVars, task, status, hookdirExists, hooks, hooksBefore, calls,
                   buildDir, runs>>

\* The finally clause without the test of session.interactive.
TestsFinallyAlwaysNotifies ==
    /\ status = "running" /\ task = "tests" /\ pc = "finally"
    /\ trace' = Append(trace, [step |-> "finally", kind |-> "notify", cmd |-> <<"coverage">>,
                               ok |-> TRUE, written |-> {}])
    /\ pc' = "done"
    /\ status' = IF trace[Len(trace)].ok THEN "ok" ELSE "failed"
    /\ UNCHANGED <<sessionVars, task, hookdirExists, hooks, hooksBefore, calls,
                   buildDir, covData, runs>>

\* The finally clause of lines 159-161, then the return or the re-raise.
TestsFinally ==
    /\ Running("tests", "finally")
    /\ trace' = IF interactive
                THEN Append(trace, Entry("finally", "notify", <<"coverage">>, TRUE))
                ELSE trace
    /\ pc' = "done"
    /\ status' = IF trace[Len(trace)].ok THEN "ok" ELSE "failed"
    /\ UNCHANGED <<sessionVars, task, hookdirExists, hooks, hooksBefore, calls,
                   buildDir, covData, runs>>

(**************************** coverage *************************************)

CoverageDefault == <<"report">>

CoverageArgs == IF CoverageHasArgs THEN posargs ELSE CoverageDefault

\* coverage combine merges the .coverage.* files into .coverage.
CoverageCombine ==
    /\ Running("coverage", "combine")
    /\ \E ok \in BOOLEAN :
        /\ Proceed(Entry("combine", "run", <<"coverage", "combine">>, ok), "report")
        /\ covData' = IF ok THEN FALSE ELSE covData
    /\ UNCHANGED <<sessionVars, task, hookdirExists, hooks, hooksBefore, calls,
                   buildDir, runs>>

CoverageRun ==
    /\ Running("coverage", "report")
    /\ \E ok \in BOOLEAN :
        Proceed(Entry("report", "run", <<"coverage">> \o CoverageArgs, ok), "done")
    /\ UNCHANGED <<sessionVars, task, hookdirExists, hooks, hooksBefore, calls,
                   buildDir, covData, runs>>

(**************************** typeguard ************************************)

TypeguardRun ==
    /\ Running("typeguard", "pytest")
    /\ \E ok \in BOOLEAN :
        Proceed(Entry("pytest", "run",
                      <<"pytest", "--typeguard-packages=haapi.games.rawg">> \o posargs, ok),
                "done")
    /\ UNCHANGED <<sessionVars, task, hookdirExists, hooks, hooksBefore, calls,
                   buildDir, covData, runs>>

(**************************** xdoctest *************************************)

XdoctestDefault == <<"all">>

\* The caller's arguments added to the default instead of replacing it.
XdoctestArgsAppended == XdoctestDefault \o posargs

XdoctestArgs == IF posargs # <<>> THEN posargs ELSE XdoctestDefault

XdoctestRun ==
    /\ Running("xdoctest", "xdoctest")
    /\ \E ok \in BOOLEAN :
        Proceed(Entry("xdoctest", "run",
                      <<"python", "-m", "xdoctest", "src/haapi/games/rawg">>
                          \o XdoctestArgs, ok),
                "done")
    /\ UNCHANGED <<sessionVars, task, hookdirExists, hooks, hooksBefore, calls,
                   buildDir, covData, runs>>

(************************ docs-build and docs ******************************)

DocsBuildDefault == <<"docs", "docs/_build">>

DocsBuildArgs == IF posargs # <<>> THEN posargs ELSE DocsBuildDefault

DocsDefault == <<"--open-browser", "docs", "docs/_build">>

DocsArgs == IF posargs # <<>> THEN posargs ELSE DocsDefault

\* The session functions without lines 224-225 and 254-255.
CleanBuildDirSkipped ==
    /\ status = "running"
    /\ task \in {"docs-build", "docs"}
    /\ pc = "clean"
    /\ pc' = IF task = "docs-build" THEN "sphinx-apidoc" ELSE "sphinx-autobuild"
    /\ UNCHANGED <<sessionVars, task, status, trace, hookdirExists, hooks, hooksBefore,
                   calls, buildDir, covData, runs>>

\* if build_dir.exists(): shutil.rmtree(build_dir).  rmtree raises on what is
\* no directory, and may fail on a directory.
CleanBuildDir ==
    /\ status = "running"
    /\ task \in {"docs-build", "docs"}
    /\ pc = "clean"
    /\ LET next == IF task = "docs-build" THEN "sphinx-apidoc" ELSE "sphinx-autobuild"
       IN  \/ /\ buildDir = "absent"
              /\ pc' = next
              /\ UNCHANGED <<trace, status, buildDir>>
           \/ /\ buildDir = "dir"
              /\ \E ok \in BOOLEAN :
                  /\ Proceed(Entry("clean", "rmtree", <<"docs/_build">>, ok), next)
                  /\ buildDir' = IF ok THEN "absent" ELSE "dir"
           \/ /\ buildDir = "file"
              /\ Proceed(Entry("clean", "rmtree", <<"docs/_build">>, FALSE), next)
              /\ UNCHANGED buildDir
    /\ UNCHANGED <<sessionVars, task, hookdirExists, hooks, hooksBefore, calls,
                   covData, runs>>

\* sphinx-apidoc writes .rst files into docs, none under docs/_build.
SphinxApidocRun ==
    /\ Running("docs-build", "sphinx-apidoc")
    /\ \E ok \in BOOLEAN :
        Proceed(Entry("sphinx-apidoc", "run",
                      <<"sphinx-apidoc", "-o", "docs", "-fTPM", "--implicit-namespaces",
                        "src/haapi">>, ok),
                "sphinx-build")
    /\ UNCHANGED <<sessionVars, task, hookdirExists, hooks, hooksBefore, calls,
                   buildDir, covData, runs>>

\* sphinx-build may create its output directory.
SphinxBuildRun ==
    /\ Running("docs-build", "sphinx-build")
    /\ \E ok \in BOOLEAN :
        Proceed(Entry("sphinx-build", "run", <<"sphinx-build">> \o DocsBuildArgs, ok),
                "done")
    /\ buildDir' \in {buildDir, "dir"}
    /\ UNCHANGED <<sessionVars, task, hookdirExists, hooks, hooksBefore, calls,
                   covData, runs>>

SphinxAutobuildRun ==
    /\ Running("docs", "sphinx-autobuild")
    /\ \E ok \in BOOLEAN :
        Proceed(Entry("sphinx-autobuild", "run", <<"sphinx-autobuild">> \o DocsArgs, ok),
                "done")
    /\ buildDir' \in {buildDir, "dir"}
    /\ UNCHANGED <<sessionVars, task, hookdirExists, hooks, hooksBefore, calls,
                   covData, runs>>

(***************************************************************************)
(* The sessions on one filesystem                                          *)
(***************************************************************************)

\* The hooks directories the sessions start on.
SessionHookDirectories ==
    { [name \in HookNames |-> IF name = PreCommitHook THEN e ELSE InstalledSample] :
        e \in { File(<<"#","!","p","y","t","h","o","n","\n","/","v","\n">>),
                File(<<"#","!","s","h","\n","/","v","\n">>) } }

Init ==
    /\ platform = "posix"
    /\ interactive = FALSE
    /\ bin = None
    /\ virtualenv = None
    /\ posargs = <<>>
    /\ manifestLen = 1
    /\ task = "idle"
    /\ pc = "done"
    /\ status = "ok"
    /\ trace = <<>>
    /\ hookdirExists \in BOOLEAN
    /\ hooks \in IF hookdirExists THEN SessionHookDirectories ELSE {<<>>}
    /\ hooksBefore = hooks
    /\ calls = 0
    /\ buildDir \in {"absent", "dir", "file"}
    /\ covData \in BOOLEAN
    /\ runs = 0

Next ==
    \/ StartSession
    \/ EndSession
    \/ SessionInstall
    \/ PreCommitRun
    \/ PreCommitActivate
    \/ SafetyExport
    \/ SafetyRun
    \/ MypyRun
    \/ MypyNoxfileRun
    \/ TestsRun
    \/ TestsFinally
    \/ CoverageCombine
    \/ CoverageRun
    \/ TypeguardRun
    \/ XdoctestRun
    \/ CleanBuildDir
    \/ SphinxApidocRun
    \/ SphinxBuildRun
    \/ SphinxAutobuildRun

Spec == Init /\ [][Next]_vars

(***************************************************************************)
(* Properties of the helper, checked under SpecHelper                      *)
(***************************************************************************)

\* The first line of a file as it is stored: what precedes its first line break.
C1_FirstLine(content) ==
    LET i == FirstOf(content, {"\n", "\r", "\f"})
    IN  IF i = 0 THEN content ELSE SubSeq(content, 1, i - 1)

C1_Recognizable(line) ==
    /\ Len(line) >= 2
    /\ line[1] = "#"
    /\ line[2] = "!"
    /\ \E i \in 1..Len(line) :
        i + 5 <= Len(line) /\ ToLower(SubSeq(line, i, i + 5)) = <<"p","y","t","h","o","n">>

\* C1: whatever the session state, a hook file whose first line does not start
\* with "#!" or does not contain "python" (in any case) has the same content
\* after the helper returns as before.
C1_NoWriteWithoutPythonShebang ==
    calls > 0 =>
        \A name \in DOMAIN hooksBefore :
            (hooksBefore[name].kind = "file"
                /\ ~C1_Recognizable(C1_FirstLine(hooksBefore[name].content)))
            => hooks[name] = hooksBefore[name]

\* The helper ran with its preconditions met on a hook that mentions the bin
\* directory under a "#!sh" line, and left it alone.
C1_Witness ==
    /\ calls > 0
    /\ hookdirExists
    /\ bin = <<"/","v">>
    /\ virtualenv # None
    /\ hooksBefore[PreCommitHook] = File(<<"#","!","s","h","\n","/","v">>)
    /\ hooks[PreCommitHook] = hooksBefore[PreCommitHook]

\* C2 as stated: the helper changes no hook when the session is not
\* interactive, VIRTUAL_ENV is absent or the hooks directory is absent.
C2_NoOpWhenNotInteractive ==
    (calls > 0 /\ (~interactive \/ virtualenv = None \/ ~hookdirExists))
        => hooks = hooksBefore

\* C2 as the code has it: the helper changes no hook when session.bin is None,
\* VIRTUAL_ENV is absent or the hooks directory is absent.
C2_NoOpWhenPreconditionUnmet ==
    (calls > 0 /\ (bin = None \/ virtualenv = None \/ ~hookdirExists))
        => hooks = hooksBefore

\* The helper ran without VIRTUAL_ENV on a hook it would otherwise patch.
C2_Witness ==
    /\ calls > 0
    /\ hookdirExists
    /\ bin = <<"/","v">>
    /\ virtualenv = None
    /\ hooksBefore[PreCommitHook] = File(<<"#","!","p","y","t","h","o","n","\n","/","v">>)
    /\ hooks = hooksBefore

\* C8: a second application of the helper to the hooks it has already patched
\* leaves every hook file unchanged.
C8_SecondPatchChangesNothing == calls >= 2 => hooks = hooksBefore

C9_ContainsBin(text) ==
    \/ Contains(Bindir, text)
    \/ platform = "nt" /\ Contains(ToLower(Bindir), ToLower(text))

C9_Lines(content) == SplitLines(ReadText(content))

\* A patched hook reads: the original first line, the lines of the header block,
\* then (after one empty line) the original lines from the second onward.
C9_PatchedHooks ==
    \A name \in DOMAIN hooks :
        hooks[name] # hooksBefore[name] =>
            LET old == C9_Lines(hooksBefore[name].content)
                new == C9_Lines(hooks[name].content)
            IN  /\ hooks[name].kind = "file"
                /\ old # <<>>
                /\ new = <<old[1]>> \o SplitLines(Header)
                            \o (IF Len(old) > 1 THEN << <<>> >> \o Tail(old) ELSE <<>>)

C9_SkippedHooks ==
    \A name \in DOMAIN hooks :
        (\/ EndsWith(name, <<".","s","a","m","p","l","e">>)
         \/ hooksBefore[name].kind # "file"
         \/ ~C9_ContainsBin(ReadText(hooksBefore[name].content)))
        => hooks[name] = hooksBefore[name]

\* C9: a hook the helper patches keeps its first line, has one header block
\* directly after it and its other lines, in order, after the header; a hook
\* the helper skips (a name ending in ".sample", no regular file, a text without
\* the bin directory) is unchanged.
C9_PatchKeepsLinesAndSkipsRest == calls > 0 => (C9_PatchedHooks /\ C9_SkippedHooks)

\* The helper patched a hook of several lines beside a sample it skipped.
C9_Witness ==
    /\ calls > 0
    /\ hookdirExists
    /\ hooks[PreCommitHook] # hooksBefore[PreCommitHook]
    /\ Len(C9_Lines(hooksBefore[PreCommitHook].content)) > 1
    /\ hooksBefore[PrePushSample] = InstalledSample
    /\ hooks[PrePushSample] = InstalledSample

(***************************************************************************)
(* Properties of the sessions, checked under Spec                          *)
(***************************************************************************)

C3_TestCommandReached ==
    /\ task = "tests"
    /\ pc = "done"
    /\ \E i \in 1..Len(trace) : trace[i].step = "coverage-run"

C3_CoverageNotified ==
    \E i \in 1..Len(trace) : trace[i].kind = "notify" /\ trace[i].cmd = <<"coverage">>

\* C3 as stated: every execution of tests that reaches the test command
\* schedules the coverage session, whether the test run succeeds or fails.
C3_AlwaysNotifies == C3_TestCommandReached => C3_CoverageNotified

\* C3 as the code has it: an execution of tests that reaches the test command
\* schedules the coverage session exactly when the session is interactive,
\* whether the test run succeeds or fails.
C3_NotifiesWhenInteractive ==
    C3_TestCommandReached => (C3_CoverageNotified <=> interactive)

\* An interactive tests session whose test run failed and which notified coverage.
C3_Witness ==
    /\ C3_TestCommandReached
    /\ status = "failed"
    /\ interactive
    /\ C3_CoverageNotified

\* C4: docs/_build does not exist when sphinx-apidoc, sphinx-build or
\* sphinx-autobuild is about to start.
C4_BuildDirAbsentAtDocCommands ==
    (status = "running" /\ pc \in {"sphinx-apidoc", "sphinx-build", "sphinx-autobuild"})
        => buildDir = "absent"

\* sphinx-build is about to start with the caller's arguments, after the build
\* directory that existed was removed.
C4_Witness ==
    /\ status = "running"
    /\ pc = "sphinx-build"
    /\ posargs # <<>>
    /\ \E i \in 1..Len(trace) : trace[i].kind = "rmtree" /\ trace[i].ok

\* C5: the coverage session runs coverage with the caller's arguments only when
\* there are arguments and the manifest holds one session, and "coverage report"
\* otherwise.
C5_CoverageArguments ==
    \A i \in 1..Len(trace) :
        (task = "coverage" /\ trace[i].step = "report") =>
            trace[i].cmd = IF posargs # <<>> /\ manifestLen = 1
                           THEN <<"coverage">> \o posargs
                           ELSE <<"coverage", "report">>

\* The coverage session was given arguments among several sessions and ran.
C5_Witness ==
    /\ task = "coverage"
    /\ posargs # <<>>
    /\ manifestLen = 2
    /\ \E i \in 1..Len(trace) : trace[i].step = "report"

\* The step of each session that runs its tool.
C6_ToolStep(t) ==
    CASE t = "pre-commit" -> "pre-commit"
      [] t = "safety"     -> "safety"
      [] t = "mypy"       -> "mypy"
      [] t = "tests"      -> "coverage-run"
      [] t = "coverage"   -> "report"
      [] t = "typeguard"  -> "pytest"
      [] t = "xdoctest"   -> "xdoctest"
      [] t = "docs-build" -> "sphinx-build"
      [] t = "docs"       -> "sphinx-autobuild"

\* The words of each tool's command line that no caller changes.
C6_Fixed(t) ==
    CASE t = "pre-commit" -> <<"pre-commit">>
      [] t = "safety"     -> <<"safety">>
      [] t = "mypy"       -> <<"mypy">>
      [] t = "tests"      -> <<"coverage", "run", "--parallel", "-m", "pytest">>
      [] t = "coverage"   -> <<"coverage">>
      [] t = "typeguard"  -> <<"pytest", "--typeguard-packages=haapi.games.rawg">>
      [] t = "xdoctest"   -> <<"python", "-m", "xdoctest", "src/haapi/games/rawg">>
      [] t = "docs-build" -> <<"sphinx-build">>
      [] t = "docs"       -> <<"sphinx-autobuild">>

\* The arguments each tool gets when the caller gives none.
C6_Defaults(t) ==
    CASE t = "pre-commit" -> <<"run", "--all-files", "--show-diff-on-failure">>
      [] t = "safety"     -> <<"check", "--file=requirements.txt", "--bare">>
      [] t = "mypy"       -> <<"--explicit-package-bases", "src/haapi/games", "tests",
                               "docs/conf.py">>
      [] t = "tests"      -> <<>>
      [] t = "coverage"   -> <<"report">>
      [] t = "typeguard"  -> <<>>
      [] t = "xdoctest"   -> <<"all">>
      [] t = "docs-build" -> <<"docs", "docs/_build">>
      [] t = "docs"       -> <<"--open-browser", "docs", "docs/_build">>

C6_ToolRunsWith(t, args) ==
    \A i \in 1..Len(trace) :
        (task = t /\ trace[i].step = C6_ToolStep(t)) => trace[i].cmd = C6_Fixed(t) \o args

C6_Overrides(t) ==
    C6_ToolRunsWith(t, IF posargs # <<>> THEN posargs ELSE C6_Defaults(t))

\* C6 as stated: in each of the nine sessions the caller's non-empty arguments
\* replace the default arguments of the tool.
C6_EverySessionOverrides == \A t \in TaskNames : C6_Overrides(t)

\* C6 as the code has it: the caller's non-empty arguments replace the default
\* arguments in pre-commit, mypy, tests, typeguard, xdoctest, docs-build and
\* docs; safety always runs with its own arguments; coverage takes the caller's
\* arguments only when the manifest holds one session and runs "coverage
\* report" otherwise.
C6_OverridesExceptSafetyAndCoverage ==
    /\ \A t \in TaskNames \ {"safety", "coverage"} : C6_Overrides(t)
    /\ C6_ToolRunsWith("safety", C6_Defaults("safety"))
    /\ manifestLen = 1 => C6_Overrides("coverage")
    /\ manifestLen # 1 => C6_ToolRunsWith("coverage", C6_Defaults("coverage"))

\* xdoctest ran with the caller's arguments.
C6_Witness ==
    /\ task = "xdoctest"
    /\ posargs # <<>>
    /\ \E i \in 1..Len(trace) : trace[i].step = "xdoctest"

\* C7 as stated: once a step of a session has failed, no later step of that
\* session is executed.
C7_NothingAfterFailure ==
    \A i \in 1..Len(trace) : ~trace[i].ok => i = Len(trace)

\* C7 as the code has it: once a step of a session has failed, the session
\* fails, the failed command is not run again, and the one thing that may still
\* follow is the notification of coverage in the finally clause of tests.
C7_OnlyNotifyAfterFailure ==
    \A i \in 1..Len(trace) :
        ~trace[i].ok =>
            /\ \A j \in (i + 1)..Len(trace) :
                /\ task = "tests"
                /\ trace[j].kind = "notify"
                /\ trace[j].cmd # trace[i].cmd
            /\ pc = "done" => status = "failed"
            /\ pc \in {"done", "finally"}

\* mypy without arguments failed in its first run: the run on noxfile.py did
\* not follow.
C7_Witness ==
    /\ task = "mypy"
    /\ posargs = <<>>
    /\ status = "failed"
    /\ Len(trace) = 3
    /\ trace[3].step = "mypy"
    /\ ~trace[3].ok

\* C10: the pre-commit session writes hook files itself only when the first
\* argument given to pre-commit is "install", and only after the pre-commit
\* command has succeeded.
C10_PatchOnlyAfterInstall ==
    \A i \in 1..Len(trace) :
        trace[i].written # {} =>
            /\ task = "pre-commit"
            /\ posargs # <<>>
            /\ posargs[1] = "install"
            /\ \E j \in 1..(i - 1) :
                trace[j].step = "pre-commit" /\ trace[j].kind = "run" /\ trace[j].ok

\* pre-commit install succeeded and the session patched a hook.
C10_Witness ==
    /\ task = "pre-commit"
    /\ status = "ok"
    /\ trace # <<>>
    /\ trace[Len(trace)].written # {}

====
